---- MODULE Spec2Model ----
\* Visibility-graph avoidance planner of cogip/cpp/avoidance (Avoidance,
\* ObstaclePolygon, ObstacleRectangle, ObstacleCircle).
\*
\* Lengths are integers: every coordinate used below makes the double
\* arithmetic of the source exact (integer products and sums far below 2^53,
\* 10 * 1.2 and 5 * 1.2 round to 12.0 and 6.0), so cross products, dot
\* products and squared distances are the values the program computes.
\* hypot() used as an edge weight is kept to two decimals (ISqrt of the squared
\* length times 10^4).
EXTENDS Integers, Sequences, FiniteSets, TLC

VARIABLES
    enabled,              \* Obstacle::enabled_ of every obstacle object
    fixedObstacles,       \* Avoidance::_fixedObstacles (references, in order)
    dynamicObstacles,     \* Avoidance::_dynamicObstacles (references, in order)
    validPoints,          \* Avoidance::_validPoints
    graph,                \* Avoidance::_graph, as the set of <<p, p2, weight>> entries
    path,                 \* Avoidance::_path: references into _validPoints (0-based slots)
    startPose,            \* Avoidance::_startPose
    finishPose,           \* Avoidance::_finishPose
    isAvoidanceComputed,  \* Avoidance::_isAvoidanceComputed
    lastCall,             \* the last public call that returned: name, arguments, result
    calls,                \* number of public calls made so far
    mutex,                \* holder of _dynamicObstaclesMutex, or "free"
    prodPc,               \* per producer thread: the mutation it is inside of, if any
    planPc,               \* position of the thread inside avoidance()
    planArgs,             \* arguments of the avoidance() call in progress
    planSeen,             \* the dynamic list as read by each phase of that call
    rcPc,                 \* position of the thread inside checkRecompute()
    rcIdx,                \* range-for position of checkRecompute()
    rcArgs,               \* arguments of the checkRecompute() call in progress
    shape,                \* the obstacle object being constructed or queried on its own
    shapePc,              \* position inside that object's constructor, or "built"
    boxI,                 \* uint8_t i of ObstacleCircle::update_bounding_box_
    answer,               \* the last query made on that object and its result
    search,               \* Avoidance::dijkstra in progress: its position and its locals
    driver,               \* LDLidarDriver: its flags
    comm,                 \* LdLidarDataProcess (comm_pkg_): frame flag, frame, lidar_points_
    rxThread,             \* position and locals of the thread inside rxThreadProc()
    caller                \* the thread that calls the driver: position, locals, results

vars == <<enabled, fixedObstacles, dynamicObstacles, validPoints, graph, path,
          startPose, finishPose, isAvoidanceComputed, lastCall, calls,
          mutex, prodPc, planPc, planArgs, planSeen, rcPc, rcIdx, rcArgs,
          shape, shapePc, boxI, answer, search, driver, comm, rxThread, caller>>

registry == <<enabled, fixedObstacles, dynamicObstacles>>
planner  == <<validPoints, graph, path, startPose, finishPose, isAvoidanceComputed>>
threads  == <<mutex, prodPc, planPc, planArgs, planSeen, rcPc, rcIdx, rcArgs>>
shapes   == <<shape, shapePc, boxI, answer>>
lidar    == <<driver, comm, rxThread, caller>>

----------------------------------------------------------------------------
\* Bounds of the model

\* Every run makes at most MaxCalls public calls.
MaxCalls == 3

\* A bounding box under construction is followed up to MaxBoxPoints points.
MaxBoxPoints == 257

----------------------------------------------------------------------------
\* Numeric kernel

START_INDEX == 0
FINISH_INDEX == 1
MAX_DISTANCE == 100000000

\* Conversion of a non-negative integer to uint8_t.
uint8_t(n) == n % 256

Coords(x, y) == [x |-> x, y |-> y]

Abs(n) == IF n < 0 THEN -n ELSE n

Sign(n) == IF n < 0 THEN -1 ELSE IF n > 0 THEN 1 ELSE 0

Cross(ux, uy, vx, vy) == ux * vy - uy * vx

Dist2(a, b) == (b.x - a.x) * (b.x - a.x) + (b.y - a.y) * (b.y - a.y)

RECURSIVE ISqrtBetween(_, _, _)
ISqrtBetween(n, lo, hi) ==
    IF lo >= hi THEN lo
    ELSE LET mid == (lo + hi + 1) \div 2
         IN IF mid * mid <= n THEN ISqrtBetween(n, mid, hi)
            ELSE ISqrtBetween(n, lo, mid - 1)

ISqrt(n) == ISqrtBetween(n, 0, 46340)

\* utils::calculate_distance: std::hypot of the difference, in hundredths.
calculate_distance(a, b) == ISqrt(10000 * Dist2(a, b))

\* Coords::on_segment: p is collinear with [AB] and within its bounding interval.
on_segment(p, a, b) ==
    /\ Cross(b.x - a.x, b.y - a.y, p.x - a.x, p.y - a.y) = 0
    /\ (IF a.x <= b.x THEN a.x <= p.x /\ p.x <= b.x ELSE b.x <= p.x /\ p.x <= a.x)
    /\ (IF a.y <= b.y THEN a.y <= p.y /\ p.y <= b.y ELSE b.y <= p.y /\ p.y <= a.y)

\* Polygon::point_index: 0-based index of the first vertex equal to p, -1 if none.
point_index(ring, p) ==
    IF \E i \in 1..Len(ring) : ring[i] = p
    THEN (CHOOSE i \in 1..Len(ring) :
              ring[i] = p /\ \A j \in 1..(i - 1) : ring[j] # p) - 1
    ELSE -1

----------------------------------------------------------------------------
\* ObstaclePolygon

\* [AB] crosses the line (CD): det = (AB x AD) * (AB x AC) < 0. The sign of the
\* product is the product of the signs.
is_segment_crossing_line(a, b, c, d) ==
    Sign(Cross(b.x - a.x, b.y - a.y, d.x - a.x, d.y - a.y))
      * Sign(Cross(b.x - a.x, b.y - a.y, c.x - a.x, c.y - a.y)) < 0

is_segment_crossing_segment(a, b, c, d) ==
    IF ~is_segment_crossing_line(a, b, c, d) THEN FALSE
    ELSE IF ~is_segment_crossing_line(c, d, a, b) THEN FALSE
    ELSE TRUE

NextVertex(ring, i) == IF i = Len(ring) THEN ring[1] ELSE ring[i + 1]

\* is_point_inside with the edge test written `< 0`: a point on an edge is inside.
polygon_is_point_inside_inclusive(ring, p) ==
    \A i \in 1..Len(ring) :
        LET a == ring[i]
            b == NextVertex(ring, i)
        IN ~(Cross(b.x - a.x, b.y - a.y, p.x - a.x, p.y - a.y) < 0)

\* ObstaclePolygon::is_point_inside: strictly left of every edge.
polygon_is_point_inside(ring, p) ==
    \A i \in 1..Len(ring) :
        LET a == ring[i]
            b == NextVertex(ring, i)
        IN ~(Cross(b.x - a.x, b.y - a.y, p.x - a.x, p.y - a.y) <= 0)

\* ObstaclePolygon::is_segment_crossing: one pass of the loop body for vertex
\* i (1-based here) gives "return true", "continue" or falls through.
polygon_is_segment_crossing(ring, a, b) ==
    LET n      == Len(ring)
        index  == point_index(ring, a)
        index2 == point_index(ring, b)
        wrap   == \/ (index = 0 /\ index2 = n - 1)
                  \/ (index2 = 0 /\ index = n - 1)
    IN \E i \in 1..n :
          \/ is_segment_crossing_segment(a, b, ring[i], NextVertex(ring, i))
          \/ /\ ~wrap
             /\ \/ (index >= 0 /\ index2 >= 0 /\ Abs(index - index2) # 1)
                \/ on_segment(ring[i], a, b)

\* ObstaclePolygon::nearest_point: min starts at UINT32_MAX, so the first vertex
\* is always taken, then every strictly closer one.
RECURSIVE polygon_nearest_from(_, _, _, _)
polygon_nearest_from(ring, p, i, best) ==
    IF i > Len(ring) THEN best
    ELSE polygon_nearest_from(ring, p, i + 1,
             IF Dist2(p, ring[i]) < Dist2(p, best) THEN ring[i] ELSE best)

polygon_nearest_point(ring, p) ==
    IF Len(ring) = 0 THEN p
    ELSE polygon_nearest_from(ring, p, 2, ring[1])

\* The loop of ObstaclePolygon::calculatePolygonCentroid from vertex i on: the
\* sum of the cross products (twice the signed area) and the weighted sums.
RECURSIVE centroid_sums(_, _, _)
centroid_sums(points, i, acc) ==
    IF i > Len(points) THEN acc
    ELSE LET p1 == points[i]
             p2 == NextVertex(points, i)
             cross_product == p1.x * p2.y - p2.x * p1.y
         IN centroid_sums(points, i + 1,
                [ area  |-> acc.area + cross_product,
                  x_sum |-> acc.x_sum + (p1.x + p2.x) * cross_product,
                  y_sum |-> acc.y_sum + (p1.y + p2.y) * cross_product ])

\* ObstaclePolygon::calculatePolygonCentroid on the default-constructed
\* center_: factor = 1 / (6 * |area|) with area half the sum of the cross
\* products, then set_x(x_sum * factor) and set_x(y_sum * factor), so x ends
\* as the second value and y is never written. The rings used below have
\* integer quotients.
calculatePolygonCentroid(points, center) ==
    LET sums == centroid_sums(points, 1, [area |-> 0, x_sum |-> 0, y_sum |-> 0])
        six_area == 3 * Abs(sums.area)
        x1 == sums.x_sum \div six_area
        x2 == sums.y_sum \div six_area
    IN [center EXCEPT !.x = x2]

\* ObstaclePolygon::ObstaclePolygon for at least 3 points: the vertices are
\* pushed, the centroid and the radius computed; bounding_box_ is left as
\* default-constructed, update_bounding_box_ is not called.
ObstaclePolygon(points) ==
    [ kind         |-> "polygon",
      center       |-> calculatePolygonCentroid(points, Coords(0, 0)),
      ring         |-> points,
      bounding_box |-> << >> ]

----------------------------------------------------------------------------
\* ObstacleRectangle (orientation 0: cos = 1, sin = 0)

\* Obstacle::bounding_box_margin_ = 0.2, as the fraction MarginNum / MarginDen.
MarginNum == 1
MarginDen == 5

Inflate(len) == (len * (MarginDen + MarginNum)) \div MarginDen

\* A bounding_box_margin given to a constructor, as the fraction num / den.
Margin(num, den) == [num |-> num, den |-> den]

\* length * (1 + bounding_box_margin)
InflateBy(len, margin) == (len * (margin.den + margin.num)) \div margin.den

RectangleRing(c, lx, ly) ==
    << Coords(c.x - lx \div 2, c.y - ly \div 2),
       Coords(c.x + lx \div 2, c.y - ly \div 2),
       Coords(c.x + lx \div 2, c.y + ly \div 2),
       Coords(c.x - lx \div 2, c.y + ly \div 2) >>

\* ObstacleRectangle::ObstacleRectangle: the four vertices, then
\* ObstacleRectangle::update_bounding_box_ with the lengths scaled by 1 + margin.
ObstacleRectangle(c, lx, ly) ==
    [ kind         |-> "polygon",
      center       |-> c,
      ring         |-> RectangleRing(c, lx, ly),
      bounding_box |-> RectangleRing(c, Inflate(lx), Inflate(ly)) ]

----------------------------------------------------------------------------
\* ObstacleCircle

\* cos and sin of i quarter turns: the angles of a circle built with
\* bounding_box_points_number = 4.
CosQ(i) == IF i % 4 = 0 THEN 1 ELSE IF i % 4 = 2 THEN -1 ELSE 0
SinQ(i) == IF i % 4 = 1 THEN 1 ELSE IF i % 4 = 3 THEN -1 ELSE 0

\* ObstacleCircle::update_bounding_box_ for bounding_box_points_number = 4.
circle_bounding_box(c, radius, bounding_box_margin) ==
    IF radius <= 0 THEN << >>
    ELSE [ k \in 1..4 |->
             Coords(c.x + InflateBy(radius, bounding_box_margin) * CosQ(k - 1),
                    c.y + InflateBy(radius, bounding_box_margin) * SinQ(k - 1)) ]

\* ObstacleCircle::ObstacleCircle with bounding_box_points_number = 4.
ObstacleCircle(c, radius, bounding_box_margin) ==
    [ kind                |-> "circle",
      center              |-> c,
      radius              |-> radius,
      bounding_box_margin |-> bounding_box_margin,
      bounding_box        |-> circle_bounding_box(c, radius, bounding_box_margin) ]

\* ObstacleCircle::ObstacleCircle before update_bounding_box_ runs, for any
\* bounding_box_points_number.
circle_members(c, radius, number) ==
    [ kind                        |-> "circle",
      center                      |-> c,
      radius                      |-> radius,
      bounding_box_points_number  |-> number,
      bounding_box                |-> << >> ]

\* The point emplaced by one pass of the loop of update_bounding_box_, in polar
\* form about the centre: angle = i * 2 pi / bounding_box_points_number, kept
\* as the fraction of a turn turnNum / turnDen, at the adjusted radius.
circle_sample(o, i) ==
    [ center  |-> o.center,
      radius  |-> Inflate(o.radius),
      turnNum |-> i,
      turnDen |-> o.bounding_box_points_number ]

\* ObstacleCircle::is_point_inside: distance(center, p) <= radius.
circle_is_point_inside(o, p) == Dist2(o.center, p) <= o.radius * o.radius

\* ObstacleCircle::is_line_crossing_circle: |AB x AC| / |AB| <= radius. For
\* A = B the quotient is 0/0, a NaN, and the comparison is false.
is_line_crossing_circle(o, a, b) ==
    LET num == Abs(Cross(b.x - a.x, b.y - a.y, o.center.x - a.x, o.center.y - a.y))
        den2 == Dist2(a, b)
    IN IF den2 = 0 THEN FALSE
       ELSE num * num <= o.radius * o.radius * den2

\* ObstacleCircle::is_segment_crossing
circle_is_segment_crossing(o, a, b) ==
    IF circle_is_point_inside(o, a) \/ circle_is_point_inside(o, b)
         \/ is_line_crossing_circle(o, a, b)
    THEN TRUE
    ELSE LET scal1 == (b.x - a.x) * (o.center.x - a.x) + (b.y - a.y) * (o.center.y - a.y)
             scal2 == (-(b.x - a.x)) * (o.center.x - b.x) + (-(b.y - a.y)) * (o.center.y - b.y)
         IN scal1 >= 0 /\ scal2 >= 0

\* ObstacleCircle::nearest_point: center + (p - center) * radius * (1 + margin) / |p - center|.
\* The points given to it here are off-centre on an axis through the centre,
\* where the norm and the quotient are exact.
circle_nearest_point(o, p) ==
    LET vx == p.x - o.center.x
        vy == p.y - o.center.y
        norm == ISqrt(vx * vx + vy * vy)
    IN Coords(o.center.x + (vx * InflateBy(o.radius, o.bounding_box_margin)) \div norm,
              o.center.y + (vy * InflateBy(o.radius, o.bounding_box_margin)) \div norm)

----------------------------------------------------------------------------
\* Obstacle: the virtual calls, dispatched on the dynamic type.

is_point_inside(o, p) ==
    IF o.kind = "circle" THEN circle_is_point_inside(o, p)
    ELSE polygon_is_point_inside(o.ring, p)

is_segment_crossing(o, a, b) ==
    IF o.kind = "circle" THEN circle_is_segment_crossing(o, a, b)
    ELSE polygon_is_segment_crossing(o.ring, a, b)

nearest_point(o, p) ==
    IF o.kind = "circle" THEN circle_nearest_point(o, p)
    ELSE polygon_nearest_point(o.ring, p)

----------------------------------------------------------------------------
\* The playing field and the obstacle objects the caller owns

\* Avoidance::_borders: the ring given to the constructor, counter-clockwise.
Borders == << Coords(0, 0), Coords(40, 0), Coords(40, 30), Coords(0, 30) >>

\* The obstacle objects (the registry holds references to them): a rectangle R
\* in the middle of the field, a circle C in its upper left part, and a second
\* rectangle object T built with the arguments of R.
Pool == {"R", "C", "T"}

\* The obstacle objects of the scenes the search is followed on: R and C, a
\* rectangle U that overlaps the lower left corner of R, and a circle Z built
\* with bounding_box_margin = 0 in the lower right part of the field.
Scene == {"R", "C", "U", "Z"}

Obj ==
    [ o \in Pool \cup Scene |->
        IF o = "C" THEN ObstacleCircle(Coords(9, 22), 5, Margin(MarginNum, MarginDen))
        ELSE IF o = "Z" THEN ObstacleCircle(Coords(30, 8), 5, Margin(0, 1))
        ELSE IF o = "U" THEN ObstacleRectangle(Coords(12, 7), 10, 10)
        ELSE ObstacleRectangle(Coords(20, 15), 10, 10) ]

\* Poses given to the planner: A and B are free, E lies on the right border
\* edge, RI inside the rectangle, CI inside the circle. The centre of the
\* circle is the midpoint of [M1 M2], whose ends are outside of it.
A == Coords(2, 4)
B == Coords(38, 29)
E == Coords(40, 15)
RI == Coords(17, 12)
CI == Coords(9, 25)
M1 == Coords(2, 16)
M2 == Coords(16, 28)

StartPoses == {A, RI, CI}
FinishPoses == {A, B, E, RI}
Segments == { <<A, B>>, <<A, A>>, <<CI, B>>, <<M1, M2>> }

NoPose == Coords(0, 0)

----------------------------------------------------------------------------
\* Avoidance

\* Avoidance::is_point_in_obstacles over the obstacle lists `all` (fixed first,
\* then dynamic); filter is an object or "none" for nullptr.
is_point_in_obstacles(all, en, p, filter) ==
    \E k \in 1..Len(all) :
        /\ en[all[k]]
        /\ filter # all[k]
        /\ is_point_inside(Obj[all[k]], p)

\* Avoidance::validateObstaclePoints: appends to the valid points vp.
RECURSIVE validateObstaclePoints(_, _, _, _)
validateObstaclePoints(all, en, k, vp) ==
    IF k > Len(all) THEN vp
    ELSE LET obstacle == Obj[all[k]]
             Valid(point) ==
                 /\ polygon_is_point_inside(Borders, point)
                 /\ ~is_point_in_obstacles(all, en, point, "none")
         IN IF ~en[all[k]] THEN validateObstaclePoints(all, en, k + 1, vp)
            ELSE IF ~polygon_is_point_inside(Borders, obstacle.center)
                 THEN validateObstaclePoints(all, en, k + 1, vp)
            ELSE validateObstaclePoints(all, en, k + 1,
                     vp \o SelectSeq(obstacle.bounding_box, Valid))

\* The collide flag with disabled obstacles tested as well.
collide_disabled_too(all, en, a, b) ==
    \E k \in 1..Len(all) : is_segment_crossing(Obj[all[k]], a, b)

\* The collide flag of Avoidance::buildAvoidanceGraph for one segment.
collide(all, en, a, b) ==
    \E k \in 1..Len(all) :
        en[all[k]] /\ is_segment_crossing(Obj[all[k]], a, b)

\* buildAvoidanceGraph with the collide flag reset for each list: only the
\* last list, the dynamic one, decides.
buildAvoidanceGraph_last_list(all, en, vp) ==
    LET n == Len(vp)
        free == { e \in (0..(n - 1)) \X (0..(n - 1)) :
                     e[1] < e[2] /\ ~collide(dynamicObstacles, en, vp[e[1] + 1], vp[e[2] + 1]) }
    IN UNION { { <<e[1], e[2], calculate_distance(vp[e[1] + 1], vp[e[2] + 1])>>,
                 <<e[2], e[1], calculate_distance(vp[e[1] + 1], vp[e[2] + 1])>> } : e \in free }

\* Avoidance::buildAvoidanceGraph after validateObstaclePoints: the entries
\* _graph[p][p2] and _graph[p2][p] of every pair that does not collide. Vertex
\* v is validPoints[v + 1].
buildAvoidanceGraph(all, en, vp) ==
    LET n == Len(vp)
        free == { e \in (0..(n - 1)) \X (0..(n - 1)) :
                     e[1] < e[2] /\ ~collide(all, en, vp[e[1] + 1], vp[e[2] + 1]) }
    IN UNION { { <<e[1], e[2], calculate_distance(vp[e[1] + 1], vp[e[2] + 1])>>,
                 <<e[2], e[1], calculate_distance(vp[e[1] + 1], vp[e[2] + 1])>> } : e \in free }

Weight(g, v, j) == (CHOOSE e \in g : e[1] = v /\ e[2] = j)[3]

\* The neighbour loop that sets the distance and the parent of a neighbour
\* the first time it is met and never improves them.
RECURSIVE relax_first_found(_, _, _, _, _)
relax_first_found(g, n, v, j, dp) ==
    IF j >= n THEN dp
    ELSE IF /\ \E e \in g : e[1] = v /\ e[2] = j
            /\ dp.distance[j] = MAX_DISTANCE
         THEN relax_first_found(g, n, v, j + 1,
                  [distance |-> [dp.distance EXCEPT ![j] = dp.distance[v] + Weight(g, v, j)],
                   parent   |-> [dp.parent EXCEPT ![j] = v]])
         ELSE relax_first_found(g, n, v, j + 1, dp)

\* The neighbour loop that updates nothing.
relax_no_update(g, n, v, j, dp) == dp

\* The neighbour loop of Avoidance::dijkstra for the vertex v: neighbours in
\* ascending order, dp holds the distance and parent maps.
RECURSIVE relax(_, _, _, _, _)
relax(g, n, v, j, dp) ==
    IF j >= n THEN dp
    ELSE IF /\ \E e \in g : e[1] = v /\ e[2] = j
            /\ dp.distance[j] > dp.distance[v] + Weight(g, v, j)
         THEN relax(g, n, v, j + 1,
                  [distance |-> [dp.distance EXCEPT ![j] = dp.distance[v] + Weight(g, v, j)],
                   parent   |-> [dp.parent EXCEPT ![j] = v]])
         ELSE relax(g, n, v, j + 1, dp)

\* The scan for the next vertex with the last of the vertices of smallest
\* distance taken on a tie.
next_vertex_last_on_tie(open, dist) ==
    CHOOSE i \in open :
        \A j \in open : dist[i] < dist[j] \/ (dist[i] = dist[j] /\ i >= j)

\* The scan of Avoidance::dijkstra for the next vertex: the map is walked in
\* ascending index and a vertex replaces the one held only when its distance is
\* strictly smaller, so the first of the unchecked vertices of smallest
\* distance is taken.
next_vertex(open, dist) ==
    CHOOSE i \in open :
        \A j \in open : dist[i] < dist[j] \/ (dist[i] = dist[j] /\ i <= j)

\* The main loop of Avoidance::dijkstra: mark v, relax its neighbours, take the
\* unchecked vertex of smallest distance (the first one on a tie).
RECURSIVE dijkstra_loop(_, _, _, _, _)
dijkstra_loop(g, n, checked, dp, v) ==
    IF ~(v # FINISH_INDEX /\ ~checked[v]) THEN [ok |-> TRUE, parent |-> dp.parent]
    ELSE LET checked2 == [checked EXCEPT ![v] = TRUE]
             dp2 == relax(g, n, v, 0, dp)
             open == { i \in 0..(n - 1) :
                         ~checked2[i] /\ dp2.distance[i] < MAX_DISTANCE }
         IN IF open = {} THEN [ok |-> FALSE, parent |-> dp2.parent]
            ELSE dijkstra_loop(g, n, checked2, dp2, next_vertex(open, dp2.distance))

\* The path with the start pushed in front of it as well.
RECURSIVE build_path_with_start(_, _, _)
build_path_with_start(parent, current, acc) ==
    IF current = -1 THEN acc
    ELSE IF current = START_INDEX THEN <<current>> \o acc
    ELSE build_path_with_start(parent, parent[current], <<current>> \o acc)

\* The path of Avoidance::dijkstra: parent links from the finish back to the start.
RECURSIVE build_path(_, _, _)
build_path(parent, current, acc) ==
    IF ~(current # -1 /\ current # START_INDEX) THEN acc
    ELSE build_path(parent, parent[current], <<current>> \o acc)

\* Avoidance::dijkstra: the value returned, with _path and _isAvoidanceComputed.
dijkstra(vp, g) ==
    LET n == Len(vp)
    IN IF ~(\E e \in g : e[1] = START_INDEX)
       THEN [ret |-> FALSE, kind |-> "StartIsolated", path |-> << >>]
       ELSE LET r == dijkstra_loop(g, n,
                         [i \in 0..(n - 1) |-> FALSE],
                         [distance |-> [i \in 0..(n - 1) |->
                                          IF i = START_INDEX THEN 0 ELSE MAX_DISTANCE],
                          parent   |-> [i \in 0..(n - 1) |-> -1]],
                         START_INDEX)
            IN IF ~r.ok THEN [ret |-> FALSE, kind |-> "NoPath", path |-> << >>]
               ELSE [ret |-> TRUE, kind |-> "ok",
                     path |-> build_path(r.parent, FINISH_INDEX, << >>)]

\* The loop of Avoidance::avoidance that checks the start and finish poses
\* against every obstacle of the lists.
RECURSIVE check_poses(_, _, _, _)
check_poses(all, k, start, finish) ==
    IF k > Len(all) THEN [fail |-> FALSE, start |-> start]
    ELSE IF is_point_inside(Obj[all[k]], finish) THEN [fail |-> TRUE, start |-> start]
    ELSE check_poses(all, k + 1,
             IF is_point_inside(Obj[all[k]], start)
             THEN nearest_point(Obj[all[k]], start) ELSE start,
             finish)

\* Avoidance::avoidance over the obstacle lists `all`: the value returned and
\* the members on return.
avoidance_on(all, start, finish) ==
    LET kept == [validPoints |-> validPoints, graph |-> graph, path |-> path,
                 built |-> FALSE, ret |-> FALSE, finishPose |-> finish,
                 isAvoidanceComputed |-> FALSE]
    IN IF ~polygon_is_point_inside(Borders, finish)
       THEN kept @@ [kind |-> "FinishOutsideBorders", startPose |-> start]
       ELSE LET c == check_poses(all, 1, start, finish)
            IN IF c.fail
               THEN kept @@ [kind |-> "FinishInsideObstacle", startPose |-> c.start]
               ELSE LET vp == validateObstaclePoints(all, enabled, 1, <<c.start, finish>>)
                        g  == buildAvoidanceGraph(all, enabled, vp)
                        d  == dijkstra(vp, g)
                    IN [validPoints |-> vp, graph |-> g, path |-> d.path,
                        built |-> TRUE, ret |-> d.ret, finishPose |-> finish,
                        isAvoidanceComputed |-> d.ret, kind |-> d.kind,
                        startPose |-> c.start]

\* Avoidance::avoidance as one call on the registry.
avoidance(start, finish) ==
    avoidance_on(fixedObstacles \o dynamicObstacles, start, finish)

\* checkRecompute iterating the fixed list.
checkRecompute_fixed_list(start, stop) ==
    \E k \in 1..Len(fixedObstacles) :
        /\ polygon_is_point_inside(Borders, Obj[fixedObstacles[k]].center)
        /\ is_segment_crossing(Obj[fixedObstacles[k]], start, stop)

\* Avoidance::checkRecompute as one call.
checkRecompute(start, stop) ==
    \E k \in 1..Len(dynamicObstacles) :
        /\ polygon_is_point_inside(Borders, Obj[dynamicObstacles[k]].center)
        /\ is_segment_crossing(Obj[dynamicObstacles[k]], start, stop)

\* Avoidance::getPathPose: the parameter is a uint8_t, the caller's index is
\* converted to it; ok = FALSE stands for the std::out_of_range thrown.
getPathPose(i) ==
    LET index == uint8_t(i)
    IN IF index < Len(path)
       THEN [ok |-> TRUE, pose |-> validPoints[path[index + 1] + 1]]
       ELSE [ok |-> FALSE, pose |-> NoPose]

\* removeDynamicObstacle comparing the obstacles by value, not by address.
remove_obstacle_equal(list, o) == SelectSeq(list, LAMBDA x : Obj[x] # Obj[o])

\* std::remove_if + erase of Avoidance::removeDynamicObstacle.
remove_obstacle(list, o) == SelectSeq(list, LAMBDA x : x # o)

----------------------------------------------------------------------------
\* LdLidarDataProcess: the points kept per degree

NUM_ANGLES == 360
max_distance == 3000
min_intensity == 150

uint16_t(n) == n % 65536

\* PointData; the float angle is kept in hundredths of a degree.
PointData(angle, distance, intensity, stamp) ==
    [angle |-> angle, distance |-> distance, intensity |-> intensity, stamp |-> stamp]

\* std::floor(point.angle) converted to uint16_t.
angle_of(point) == uint16_t(point.angle \div 100)

\* The points of src that the first loop of setLidarPoints pushes to
\* tmp_distances[angle] and tmp_intensities[angle], in order.
tmp_points(src, angle) ==
    SelectSeq(src, LAMBDA point :
        /\ ~(point.intensity < min_intensity)
        /\ 0 <= angle_of(point) /\ angle_of(point) < NUM_ANGLES
        /\ point.distance > 0
        /\ angle_of(point) = angle)

\* std::accumulate(first, last, 0).
RECURSIVE accumulate(_)
accumulate(values) ==
    IF values = << >> THEN 0 ELSE Head(values) + accumulate(Tail(values))

\* Second loop of setLidarPoints, for one degree: the mean of its points
\* (integer division), or the defaults when it has none.
mean_of(src, angle) ==
    LET points == tmp_points(src, angle)
        size   == Len(points)
    IN IF size > 0
       THEN [distance  |-> uint16_t(accumulate([k \in 1..size |-> points[k].distance]) \div size),
             intensity |-> uint8_t(accumulate([k \in 1..size |-> points[k].intensity]) \div size)]
       ELSE [distance |-> max_distance, intensity |-> min_intensity]

\* The degrees from lo to hi without a point, in increasing order.
RECURSIVE empty_angles_between(_, _, _)
empty_angles_between(src, lo, hi) ==
    IF lo > hi THEN << >>
    ELSE IF lo = hi
    THEN (IF tmp_points(src, lo) = << >> THEN <<lo>> ELSE << >>)
    ELSE LET mid == (lo + hi) \div 2
         IN empty_angles_between(src, lo, mid) \o empty_angles_between(src, mid + 1, hi)

\* empty_angles at the end of the second loop of setLidarPoints.
empty_angles(src) == empty_angles_between(src, 0, NUM_ANGLES - 1)

\* consecutive_groups: a group is started by angles[0] and by every angles[i]
\* that is not angles[i-1] + 1, and runs up to the next start. (Indices are
\* 1-based here.)
consecutive_groups(angles) ==
    LET n        == Len(angles)
        starts   == { i \in 1..n : i = 1 \/ angles[i] # angles[i - 1] + 1 }
        start(k) == CHOOSE i \in starts : Cardinality({ j \in starts : j < i }) = k - 1
        end(i)   == IF \E j \in starts : j > i
                    THEN (CHOOSE j \in starts : j > i /\ \A l \in starts : l > i => j <= l) - 1
                    ELSE n
    IN [k \in 1..Cardinality(starts) |-> SubSeq(angles, start(k), end(start(k)))]

\* std::round((before + after) / 2.0) of two values that are not negative.
round_half(before, after) == (before + after + 1) \div 2

\* Third loop of setLidarPoints: the groups taken in order, each group of one
\* degree overwritten with the mean of the two degrees around it as they
\* stand at that moment.
RECURSIVE fill_isolated(_, _, _)
fill_isolated(groups, g, result) ==
    IF g > Len(groups) THEN result
    ELSE IF Len(groups[g]) = 1
         THEN LET isolated == groups[g][1]
                  before   == result[(isolated - 1 + 360) % 360]
                  after    == result[(isolated + 1) % 360]
              IN fill_isolated(groups, g + 1,
                     [result EXCEPT ![isolated] =
                         [distance  |-> uint16_t(round_half(before.distance, after.distance)),
                          intensity |-> uint8_t(round_half(before.intensity, after.intensity))]])
         ELSE fill_isolated(groups, g + 1, result)

\* LdLidarDataProcess::setLidarPoints: the value given to lidar_points_.
setLidarPoints(src) ==
    fill_isolated(consecutive_groups(empty_angles(src)), 1,
                  [angle \in 0..(NUM_ANGLES - 1) |-> mean_of(src, angle)])

----------------------------------------------------------------------------
\* LDLidarDriver and its LdLidarDataProcess: the objects after construction

\* The caller makes at most MaxDriverCalls calls of the driver.
MaxDriverCalls == 4

\* The serial stream holds at most MaxFrames whole frames.
MaxFrames == 2

\* lidar_points_ is given no value by the constructor.
NotSet == << >>

\* LDLidarDriver::LDLidarDriver.
NewDriver ==
    [is_start_flag_ |-> FALSE, is_connect_flag_ |-> FALSE,
     rx_thread_exit_flag_ |-> FALSE, is_ok_ |-> FALSE]

\* LdLidarDataProcess::LdLidarDataProcess.
NewDataProcess ==
    [is_frame_ready_ |-> FALSE, lidar_status_ |-> "NORMAL",
     lidar_scan_data_vec_ |-> << >>, lidar_points_ |-> NotSet]

\* No receive thread; `frames` counts the frames the serial stream has given.
NoThread == [pc |-> "none", tmp |-> << >>, frames |-> 0]

\* The thread that calls the driver, outside of any call; `delivered` is the
\* list of the frames that getLaserScanData gave it with NORMAL.
NewCaller ==
    [pc |-> "idle", calls |-> 0, last |-> [op |-> "new", ret |-> "none"],
     delivered |-> << >>]

----------------------------------------------------------------------------
\* Calls made one at a time

Call(op, o, a, b, ret, built, kind) ==
    [op |-> op, o |-> o, a |-> a, b |-> b, ret |-> ret, built |-> built, kind |-> kind]

\* One more public call is made and returns.
Returns(call) ==
    /\ calls < MaxCalls
    /\ calls' = calls + 1
    /\ lastCall' = call

\* The threads that feed the dynamic list, and a thread outside of any call.
Producers == {"p1", "p2"}
Outside == [op |-> "idle", o |-> "none"]

\* No obstacle object under construction, no query made on it.
NoObstacle == [kind |-> "none"]
NoAnswer == [op |-> "none"]

\* No call of dijkstra() in progress.
NoSearch == [pc |-> "idle"]

\* Indices given to getPathPose.
PoseIndices == {0, 1, 255, 256}

Init ==
    /\ enabled = [o \in Pool \cup Scene |-> TRUE]
    /\ fixedObstacles = << >>
    /\ dynamicObstacles = << >>
    /\ validPoints = << >>
    /\ graph = {}
    /\ path = << >>
    /\ startPose = NoPose
    /\ finishPose = NoPose
    /\ isAvoidanceComputed = FALSE
    /\ lastCall = Call("new", "none", NoPose, NoPose, FALSE, FALSE, "none")
    /\ calls = 0
    /\ mutex = "free"
    /\ prodPc = [t \in Producers |-> Outside]
    /\ planPc = "idle"
    /\ planArgs = <<NoPose, NoPose>>
    /\ planSeen = << >>
    /\ rcPc = "idle"
    /\ rcIdx = 0
    /\ rcArgs = [a |-> NoPose, b |-> NoPose, end |-> 0]
    /\ shape = NoObstacle
    /\ shapePc = "none"
    /\ boxI = 0
    /\ answer = NoAnswer
    /\ search = NoSearch
    /\ driver = NewDriver
    /\ comm = NewDataProcess
    /\ rxThread = NoThread
    /\ caller = NewCaller

Plan(start, finish) ==
    /\ calls < MaxCalls
    /\ \E r \in {avoidance(start, finish)} :
       /\ Returns(Call("plan", "none", start, finish, r.ret, r.built, r.kind))
       /\ validPoints' = r.validPoints
       /\ graph' = r.graph
       /\ path' = r.path
       /\ startPose' = r.startPose
       /\ finishPose' = r.finishPose
       /\ isAvoidanceComputed' = r.isAvoidanceComputed
       /\ UNCHANGED <<lidar, search, shapes, registry, threads>>

CheckRecompute(start, stop) ==
    /\ Returns(Call("should_recompute", "none", start, stop,
                        checkRecompute(start, stop), FALSE, "none"))
    /\ UNCHANGED <<lidar, search, shapes, registry, planner, threads>>

AddDynamicObstacle(o) ==
    /\ dynamicObstacles' = Append(dynamicObstacles, o)
    /\ Returns(Call("add_dynamic", o, NoPose, NoPose, FALSE, FALSE, "none"))
    /\ UNCHANGED <<lidar, search, shapes, enabled, fixedObstacles, planner, threads>>

RemoveDynamicObstacle(o) ==
    /\ dynamicObstacles' = remove_obstacle(dynamicObstacles, o)
    /\ Returns(Call("remove_dynamic", o, NoPose, NoPose, FALSE, FALSE, "none"))
    /\ UNCHANGED <<lidar, search, shapes, enabled, fixedObstacles, planner, threads>>

ClearDynamicObstacles ==
    /\ dynamicObstacles' = << >>
    /\ Returns(Call("clear_dynamic", "none", NoPose, NoPose, FALSE, FALSE, "none"))
    /\ UNCHANGED <<lidar, search, shapes, enabled, fixedObstacles, planner, threads>>

AddFixedObstacle(o) ==
    /\ fixedObstacles' = Append(fixedObstacles, o)
    /\ Returns(Call("add_fixed", o, NoPose, NoPose, FALSE, FALSE, "none"))
    /\ UNCHANGED <<lidar, search, shapes, enabled, dynamicObstacles, planner, threads>>

Enable(o, b) ==
    /\ enabled' = [enabled EXCEPT ![o] = b]
    /\ Returns(Call("enable", o, NoPose, NoPose, b, FALSE, "none"))
    /\ UNCHANGED <<lidar, search, shapes, fixedObstacles, dynamicObstacles, planner, threads>>

\* Avoidance::getPathPose called with the index i; the call record keeps i
\* and the pose returned.
PathPose(i) ==
    /\ \E r \in {getPathPose(i)} :
          Returns([ op |-> "path_pose", o |-> "none", a |-> r.pose, b |-> NoPose,
                    ret |-> r.ok, built |-> FALSE,
                    kind |-> IF r.ok THEN "ok" ELSE "out_of_range", index |-> i ])
    /\ UNCHANGED <<lidar, search, shapes, registry, planner, threads>>

Next ==
    \/ \E i \in PoseIndices : PathPose(i)
    \/ \E s \in StartPoses, f \in FinishPoses : Plan(s, f)
    \/ \E seg \in Segments : CheckRecompute(seg[1], seg[2])
    \/ \E o \in Pool : AddDynamicObstacle(o)
    \/ \E o \in Pool : RemoveDynamicObstacle(o)
    \/ ClearDynamicObstacles
    \/ \E o \in Pool : AddFixedObstacle(o)
    \/ \E o \in Pool, b \in BOOLEAN : Enable(o, b)

Spec == Init /\ [][Next]_vars

----------------------------------------------------------------------------
\* Calls running concurrently: the caller's thread inside avoidance() or
\* checkRecompute(), producer threads inside the dynamic-list mutators. The
\* caller's thread takes no lock, so its reads of _dynamicObstacles interleave
\* with the mutators; one step of it is one pass over the lists.

Starts ==
    /\ calls < MaxCalls
    /\ calls' = calls + 1

\* Avoidance::avoidance up to the borders test.
PlanStart(start, finish) ==
    /\ planPc = "idle" /\ rcPc = "idle"
    /\ Starts
    /\ startPose' = start
    /\ finishPose' = finish
    /\ isAvoidanceComputed' = FALSE
    /\ planArgs' = <<start, finish>>
    /\ planSeen' = << >>
    /\ IF ~polygon_is_point_inside(Borders, finish)
       THEN /\ planPc' = "idle"
            /\ lastCall' = Call("plan", "none", start, finish, FALSE, FALSE,
                                "FinishOutsideBorders")
       ELSE /\ planPc' = "check"
            /\ UNCHANGED lastCall
    /\ UNCHANGED <<lidar, search, shapes, registry, validPoints, graph, path, mutex, prodPc, rcPc, rcIdx, rcArgs>>

\* Avoidance::avoidance: the loop over the obstacles that checks the poses,
\* then the two first valid points.
PlanCheck ==
    /\ planPc = "check"
    /\ planSeen' = Append(planSeen, dynamicObstacles)
    /\ \E c \in {check_poses(fixedObstacles \o dynamicObstacles, 1, startPose, finishPose)} :
          /\ startPose' = c.start
          /\ IF c.fail
             THEN /\ planPc' = "idle"
                  /\ lastCall' = Call("plan", "none", planArgs[1], planArgs[2], FALSE, FALSE,
                                      "FinishInsideObstacle")
                  /\ UNCHANGED validPoints
             ELSE /\ planPc' = "validate"
                  /\ validPoints' = <<c.start, finishPose>>
                  /\ UNCHANGED lastCall
    /\ UNCHANGED <<lidar, search, shapes, registry, graph, path, finishPose, isAvoidanceComputed, calls,
                   mutex, prodPc, planArgs, rcPc, rcIdx, rcArgs>>

\* Avoidance::validateObstaclePoints, called by buildAvoidanceGraph.
PlanValidate ==
    /\ planPc = "validate"
    /\ planSeen' = Append(planSeen, dynamicObstacles)
    /\ validPoints' = validateObstaclePoints(fixedObstacles \o dynamicObstacles,
                                             enabled, 1, validPoints)
    /\ planPc' = "graph"
    /\ UNCHANGED <<lidar, search, shapes, registry, graph, path, startPose, finishPose, isAvoidanceComputed,
                   lastCall, calls, mutex, prodPc, planArgs, rcPc, rcIdx, rcArgs>>

\* The edge loop of Avoidance::buildAvoidanceGraph, then Avoidance::dijkstra.
PlanGraph ==
    /\ planPc = "graph"
    /\ planSeen' = Append(planSeen, dynamicObstacles)
    /\ \E g \in {buildAvoidanceGraph(fixedObstacles \o dynamicObstacles, enabled, validPoints)} :
       \E d \in {dijkstra(validPoints, g)} :
          /\ graph' = g
          /\ path' = d.path
          /\ isAvoidanceComputed' = d.ret
          /\ lastCall' = Call("plan", "none", planArgs[1], planArgs[2], d.ret, TRUE, d.kind)
    /\ planPc' = "idle"
    /\ UNCHANGED <<lidar, search, shapes, registry, validPoints, startPose, finishPose, calls,
                   mutex, prodPc, planArgs, rcPc, rcIdx, rcArgs>>

\* Avoidance::checkRecompute: the range-for takes begin() and end() once.
RecomputeStart(start, stop) ==
    /\ rcPc = "idle" /\ planPc = "idle"
    /\ Starts
    /\ rcPc' = "iterating"
    /\ rcIdx' = 1
    /\ rcArgs' = [a |-> start, b |-> stop, end |-> Len(dynamicObstacles)]
    /\ UNCHANGED <<lidar, search, shapes, registry, planner, lastCall, mutex, prodPc, planPc, planArgs, planSeen>>

\* One pass of the loop body of Avoidance::checkRecompute on the obstacle o.
RecomputeBody(o) ==
    IF /\ polygon_is_point_inside(Borders, Obj[o].center)
       /\ is_segment_crossing(Obj[o], rcArgs.a, rcArgs.b)
    THEN /\ rcPc' = "idle"
         /\ lastCall' = Call("should_recompute", "none", rcArgs.a, rcArgs.b, TRUE, FALSE, "none")
         /\ UNCHANGED rcIdx
    ELSE /\ rcIdx' = rcIdx + 1
         /\ UNCHANGED <<rcPc, lastCall>>

\* The next iteration of the range-for, or its end. A slot at or past the
\* current size (the list shrank since begin()/end() were taken) is read
\* without being an element: any obstacle reference may be found there.
RecomputeStep ==
    /\ rcPc = "iterating"
    /\ IF rcIdx > rcArgs.end
       THEN /\ rcPc' = "idle"
            /\ lastCall' = Call("should_recompute", "none", rcArgs.a, rcArgs.b,
                                FALSE, FALSE, "none")
            /\ UNCHANGED rcIdx
       ELSE IF rcIdx <= Len(dynamicObstacles)
            THEN RecomputeBody(dynamicObstacles[rcIdx])
            ELSE \E o \in Pool : RecomputeBody(o)
    /\ UNCHANGED <<lidar, search, shapes, registry, planner, calls, mutex, prodPc, planPc, planArgs, planSeen, rcArgs>>

\* A mutator entered without waiting for the mutex.
Lock_without_mutex(t, op, o) ==
    /\ prodPc[t] = Outside
    /\ Starts
    /\ mutex' = t
    /\ prodPc' = [prodPc EXCEPT ![t] = [op |-> op, o |-> o]]
    /\ UNCHANGED <<lidar, search, shapes, registry, planner, lastCall, planPc, planArgs, planSeen, rcPc, rcIdx, rcArgs>>

\* std::lock_guard of a mutator: the thread t enters addDynamicObstacle,
\* removeDynamicObstacle or clearDynamicObstacles with the mutex held.
Lock(t, op, o) ==
    /\ prodPc[t] = Outside
    /\ mutex = "free"
    /\ Starts
    /\ mutex' = t
    /\ prodPc' = [prodPc EXCEPT ![t] = [op |-> op, o |-> o]]
    /\ UNCHANGED <<lidar, search, shapes, registry, planner, lastCall, planPc, planArgs, planSeen, rcPc, rcIdx, rcArgs>>

\* The body of the mutator and the release of the mutex on return.
Apply(t) ==
    /\ prodPc[t] # Outside
    /\ mutex = t
    /\ dynamicObstacles' =
           IF prodPc[t].op = "add_dynamic" THEN Append(dynamicObstacles, prodPc[t].o)
           ELSE IF prodPc[t].op = "remove_dynamic"
                THEN remove_obstacle(dynamicObstacles, prodPc[t].o)
           ELSE << >>
    /\ mutex' = "free"
    /\ prodPc' = [prodPc EXCEPT ![t] = Outside]
    /\ lastCall' = Call(prodPc[t].op, prodPc[t].o, NoPose, NoPose, FALSE, FALSE, "none")
    /\ UNCHANGED <<lidar, search, shapes, enabled, fixedObstacles, planner, calls, planPc, planArgs, planSeen,
                   rcPc, rcIdx, rcArgs>>

NextConc ==
    \/ \E s \in StartPoses, f \in FinishPoses : PlanStart(s, f)
    \/ PlanCheck
    \/ PlanValidate
    \/ PlanGraph
    \/ \E seg \in Segments : RecomputeStart(seg[1], seg[2])
    \/ RecomputeStep
    \/ \E t \in Producers, o \in Pool : Lock(t, "add_dynamic", o)
    \/ \E t \in Producers, o \in Pool : Lock(t, "remove_dynamic", o)
    \/ \E t \in Producers : Lock(t, "clear_dynamic", "none")
    \/ \E t \in Producers : Apply(t)

SpecConc == Init /\ [][NextConc]_vars

----------------------------------------------------------------------------
\* One obstacle object on its own: its construction, then queries on it.

Rotate(ring) == Tail(ring) \o <<Head(ring)>>

\* Vertex rings given to ObstaclePolygon, counter-clockwise and convex: a
\* rectangle ring stored from each of three of its vertices, a triangle, and a
\* ring of two points.
RingQ == << Coords(10, 10), Coords(22, 10), Coords(22, 20), Coords(10, 20) >>
RingT == << Coords(10, 10), Coords(22, 10), Coords(13, 19) >>
Ring2 == << Coords(10, 10), Coords(22, 10) >>
Rings == { RingQ, Rotate(RingQ), Rotate(Rotate(RingQ)), RingT, Ring2 }

\* Arguments given to ObstacleCircle.
CircleCenter == Coords(16, 15)
Radii == {0, 5}
PointsNumbers == {1, 4, 8, 255, 256}

\* Points given to the queries: the vertices of RingQ, points on the line of
\* its lower edge, points left and right of both shapes, a point inside both,
\* and two points on a line far below.
ProbePoints ==
    { Coords(10, 10), Coords(22, 10), Coords(22, 20), Coords(10, 20),
      Coords(4, 10), Coords(30, 10), Coords(5, 15), Coords(24, 15), Coords(30, 15),
      Coords(16, 15), Coords(4, 4), Coords(30, 4) }

\* ObstaclePolygon::ObstaclePolygon; with fewer than 3 points it throws.
NewPolygon(points) ==
    /\ shapePc = "none"
    /\ IF Len(points) < 3
       THEN /\ shapePc' = "thrown"
            /\ UNCHANGED shape
       ELSE /\ shapePc' = "built"
            /\ shape' = ObstaclePolygon(points)
    /\ UNCHANGED <<boxI, answer, registry, planner, threads, lastCall, calls, search, lidar>>

\* ObstacleCircle::ObstacleCircle up to the loop of update_bounding_box_, which
\* returns at once for radius <= 0.
NewCircle(c, radius, number) ==
    /\ shapePc = "none"
    /\ shape' = circle_members(c, radius, number)
    /\ shapePc' = IF radius <= 0 THEN "built" ELSE "box"
    /\ boxI' = 0
    /\ UNCHANGED <<answer, registry, planner, threads, lastCall, calls, search, lidar>>

\* One test of `i < bounding_box_points_number_` in update_bounding_box_ and,
\* when it passes, one pass of the body and `++i` on the uint8_t.
CircleBoxStep ==
    /\ shapePc = "box"
    /\ IF boxI < shape.bounding_box_points_number
       THEN /\ Len(shape.bounding_box) < MaxBoxPoints
            /\ shape' = [shape EXCEPT
                               !.bounding_box = Append(@, circle_sample(shape, boxI))]
            /\ boxI' = uint8_t(boxI + 1)
            /\ UNCHANGED shapePc
       ELSE /\ shapePc' = "built"
            /\ UNCHANGED <<shape, boxI>>
    /\ UNCHANGED <<answer, registry, planner, threads, lastCall, calls, search, lidar>>

\* Obstacle::is_segment_crossing on the object built.
CrossesSegment(a, b) ==
    /\ shapePc = "built"
    /\ answer' = [op |-> "crosses_segment", a |-> a, b |-> b,
                  ret |-> is_segment_crossing(shape, a, b)]
    /\ UNCHANGED <<shape, shapePc, boxI, registry, planner, threads, lastCall, calls, search, lidar>>

\* Obstacle::is_point_inside on the object built.
Contains(p) ==
    /\ shapePc = "built"
    /\ answer' = [op |-> "contains", a |-> p, b |-> p,
                  ret |-> is_point_inside(shape, p)]
    /\ UNCHANGED <<shape, shapePc, boxI, registry, planner, threads, lastCall, calls, search, lidar>>

\* Obstacle::is_point_inside on the object built, given its own center().
ContainsCenter ==
    /\ shapePc = "built"
    /\ Contains(shape.center)

NextObstacle ==
    \/ \E points \in Rings : NewPolygon(points)
    \/ \E radius \in Radii, number \in PointsNumbers : NewCircle(CircleCenter, radius, number)
    \/ CircleBoxStep
    \/ \E a \in ProbePoints, b \in ProbePoints : CrossesSegment(a, b)
    \/ \E p \in ProbePoints : Contains(p)
    \/ ContainsCenter

SpecObstacle == Init /\ [][NextObstacle]_vars

----------------------------------------------------------------------------
\* One avoidance() call followed through the loop of dijkstra(), on the scenes
\* made of the objects of Scene.

\* Poses given to the planner there: S0 and F0 lie left and right of R on its
\* horizontal axis, RC is the upper right vertex of R, ZI is inside Z.
S0 == Coords(8, 15)
F0 == Coords(32, 15)
RC == Coords(25, 20)
ZI == Coords(30, 10)

SearchStarts == {A, RI, ZI, S0}
SearchFinishes == {A, B, F0, RC}

\* Avoidance::avoidance up to its call of dijkstra(), then dijkstra() up to its
\* main loop: the initialization of the maps, _path.clear() and the test of the
\* neighbours of the start.
SearchStart(start, finish) ==
    /\ search.pc = "idle"
    /\ Starts
    /\ planArgs' = <<start, finish>>
    /\ finishPose' = finish
    /\ isAvoidanceComputed' = FALSE
    /\ IF ~polygon_is_point_inside(Borders, finish)
       THEN /\ startPose' = start
            /\ lastCall' = Call("plan", "none", start, finish, FALSE, FALSE,
                                "FinishOutsideBorders")
            /\ UNCHANGED <<validPoints, graph, path, search>>
       ELSE \E c \in {check_poses(fixedObstacles \o dynamicObstacles, 1, start, finish)} :
            /\ startPose' = c.start
            /\ IF c.fail
               THEN /\ lastCall' = Call("plan", "none", start, finish, FALSE, FALSE,
                                        "FinishInsideObstacle")
                    /\ UNCHANGED <<validPoints, graph, path, search>>
               ELSE \E vp \in {validateObstaclePoints(fixedObstacles \o dynamicObstacles,
                                                      enabled, 1, <<c.start, finish>>)} :
                    \E g \in {buildAvoidanceGraph(fixedObstacles \o dynamicObstacles,
                                                   enabled, vp)} :
                    /\ validPoints' = vp
                    /\ graph' = g
                    /\ path' = << >>
                    /\ IF ~(\E e \in g : e[1] = START_INDEX)
                       THEN /\ lastCall' = Call("plan", "none", start, finish, FALSE, TRUE,
                                                "StartIsolated")
                            /\ UNCHANGED search
                       ELSE /\ search' =
                                 [ pc       |-> "loop",
                                   v        |-> START_INDEX,
                                   checked  |-> [i \in 0..(Len(vp) - 1) |-> FALSE],
                                   distance |-> [i \in 0..(Len(vp) - 1) |->
                                                   IF i = START_INDEX THEN 0 ELSE MAX_DISTANCE],
                                   parent   |-> [i \in 0..(Len(vp) - 1) |-> -1] ]
                            /\ UNCHANGED lastCall
    /\ UNCHANGED <<lidar, shapes, registry, mutex, prodPc, planPc, planSeen, rcPc, rcIdx, rcArgs>>

\* One pass of the main loop of Avoidance::dijkstra: v is marked, its
\* neighbours are relaxed, the next vertex is looked for; without one the call
\* returns false.
SearchStep ==
    /\ search.pc = "loop"
    /\ search.v # FINISH_INDEX /\ ~search.checked[search.v]
    /\ LET n        == Len(validPoints)
           checked2 == [search.checked EXCEPT ![search.v] = TRUE]
           dp2      == relax(graph, n, search.v, 0,
                             [distance |-> search.distance, parent |-> search.parent])
           open     == { i \in 0..(n - 1) :
                           ~checked2[i] /\ dp2.distance[i] < MAX_DISTANCE }
       IN IF open = {}
          THEN /\ search' = NoSearch
               /\ lastCall' = Call("plan", "none", planArgs[1], planArgs[2], FALSE, TRUE,
                                   "NoPath")
          ELSE /\ search' = [ pc       |-> "loop",
                              v        |-> next_vertex(open, dp2.distance),
                              checked  |-> checked2,
                              distance |-> dp2.distance,
                              parent   |-> dp2.parent ]
               /\ UNCHANGED lastCall
    /\ UNCHANGED <<lidar, shapes, registry, planner, calls, mutex, prodPc, planPc, planArgs,
                   planSeen, rcPc, rcIdx, rcArgs>>

\* The exit of the main loop of Avoidance::dijkstra: the path is built from the
\* parents and the call returns true.
SearchEnd ==
    /\ search.pc = "loop"
    /\ ~(search.v # FINISH_INDEX /\ ~search.checked[search.v])
    /\ path' = build_path(search.parent, FINISH_INDEX, << >>)
    /\ isAvoidanceComputed' = TRUE
    /\ lastCall' = Call("plan", "none", planArgs[1], planArgs[2], TRUE, TRUE, "ok")
    /\ search' = NoSearch
    /\ UNCHANGED <<lidar, shapes, registry, validPoints, graph, startPose, finishPose, calls,
                   mutex, prodPc, planPc, planArgs, planSeen, rcPc, rcIdx, rcArgs>>

\* The caller registers obstacles and disables R between two calls of
\* avoidance().
NextSearch ==
    \/ \E o \in Scene : search.pc = "idle" /\ AddDynamicObstacle(o)
    \/ search.pc = "idle" /\ Enable("R", FALSE)
    \/ \E s \in SearchStarts, f \in SearchFinishes : SearchStart(s, f)
    \/ SearchStep
    \/ SearchEnd

SpecSearch == Init /\ [][NextSearch]_vars

\* One avoidance() call made on a registry the caller has filled before: the
\* dynamic list holds up to two of the objects of Scene, in any order, all
\* enabled or R disabled.
SceneLists ==
    {<< >>} \cup { <<o>> : o \in Scene }
            \cup { <<e[1], e[2]>> : e \in { x \in Scene \X Scene : x[1] # x[2] } }

InitScenes ==
    /\ enabled \in { [o \in Pool \cup Scene |-> TRUE], [o \in Pool \cup Scene |-> o # "R"] }
    /\ fixedObstacles = << >>
    /\ dynamicObstacles \in SceneLists
    /\ validPoints = << >>
    /\ graph = {}
    /\ path = << >>
    /\ startPose = NoPose
    /\ finishPose = NoPose
    /\ isAvoidanceComputed = FALSE
    /\ lastCall = Call("new", "none", NoPose, NoPose, FALSE, FALSE, "none")
    /\ calls = 0
    /\ mutex = "free"
    /\ prodPc = [t \in Producers |-> Outside]
    /\ planPc = "idle"
    /\ planArgs = <<NoPose, NoPose>>
    /\ planSeen = << >>
    /\ rcPc = "idle"
    /\ rcIdx = 0
    /\ rcArgs = [a |-> NoPose, b |-> NoPose, end |-> 0]
    /\ shape = NoObstacle
    /\ shapePc = "none"
    /\ boxI = 0
    /\ answer = NoAnswer
    /\ search = NoSearch
    /\ driver = NewDriver
    /\ comm = NewDataProcess
    /\ rxThread = NoThread
    /\ caller = NewCaller

NextOneSearch ==
    \/ \E s \in SearchStarts, f \in SearchFinishes : calls = 0 /\ SearchStart(s, f)
    \/ SearchStep
    \/ SearchEnd

\* The thread inside dijkstra() keeps running: the loop is not suspended for
\* ever.
SpecSearchLive ==
    InitScenes /\ [][NextOneSearch]_vars /\ WF_vars(SearchStep) /\ WF_vars(SearchEnd)

----------------------------------------------------------------------------
\* The LIDAR driver: one thread calls connect, disconnect, start, stop and
\* getLaserScanData one after the other, the thread created by connect() runs
\* rxThreadProc(). Every accessor of LdLidarDataProcess takes its mutex for
\* its whole body and is one step.

\* Arguments given to connect().
PortNames == {"", "/dev/ttyUSB0"}

\* The k-th frame of the serial stream, as assemblePacket sorts it by stamp.
Frame(k) ==
    << PointData(1050, 500 + k, 200, 10 * k), PointData(1120, 500 + k, 200, 10 * k + 1) >>

\* LdLidarDataProcess::clearDataProcessStatus.
clearDataProcessStatus(c) ==
    [c EXCEPT !.is_frame_ready_ = FALSE, !.lidar_status_ = "NORMAL",
              !.lidar_scan_data_vec_ = << >>]

\* A call of the driver returns ret to the caller.
DriverReturns(op, ret) ==
    caller' = [caller EXCEPT !.pc = "idle", !.calls = @ + 1,
                             !.last = [op |-> op, ret |-> ret]]

\* LDLidarDriver::connect; `opened` is comm_serial_->IsOpen() after Open().
Connect(serial_port_name, opened) ==
    /\ caller.pc = "idle"
    /\ caller.calls < MaxDriverCalls
    /\ IF driver.is_connect_flag_
       THEN /\ DriverReturns("connect", TRUE)
            /\ UNCHANGED <<driver, comm, rxThread>>
       ELSE IF serial_port_name = ""
       THEN /\ DriverReturns("connect", FALSE)
            /\ UNCHANGED <<driver, comm, rxThread>>
       ELSE /\ comm' = clearDataProcessStatus(comm)
            /\ IF ~opened
               THEN /\ DriverReturns("connect", FALSE)
                    /\ UNCHANGED <<driver, rxThread>>
               ELSE /\ driver' = [driver EXCEPT !.is_connect_flag_ = TRUE,
                                                !.rx_thread_exit_flag_ = FALSE,
                                                !.is_ok_ = TRUE]
                    /\ rxThread' = [rxThread EXCEPT !.pc = "loop"]
                    /\ DriverReturns("connect", TRUE)
    /\ UNCHANGED <<search, shapes, registry, planner, threads, lastCall, calls>>

\* LDLidarDriver::disconnect up to rx_thread_->join().
Disconnect ==
    /\ caller.pc = "idle"
    /\ caller.calls < MaxDriverCalls
    /\ IF ~driver.is_connect_flag_
       THEN /\ DriverReturns("disconnect", TRUE)
            /\ UNCHANGED driver
       ELSE /\ driver' = [driver EXCEPT !.rx_thread_exit_flag_ = TRUE,
                                        !.is_ok_ = FALSE,
                                        !.is_connect_flag_ = FALSE]
            /\ caller' = [caller EXCEPT !.pc = "join"]
    /\ UNCHANGED <<comm, rxThread>>
    /\ UNCHANGED <<search, shapes, registry, planner, threads, lastCall, calls>>

\* LDLidarDriver::disconnect from the return of join(): the thread has left
\* rxThreadProc().
DisconnectJoined ==
    /\ caller.pc = "join"
    /\ rxThread.pc = "exited"
    /\ rxThread' = [rxThread EXCEPT !.pc = "none"]
    /\ DriverReturns("disconnect", TRUE)
    /\ UNCHANGED <<driver, comm>>
    /\ UNCHANGED <<search, shapes, registry, planner, threads, lastCall, calls>>

\* LDLidarDriver::start.
Start ==
    /\ caller.pc = "idle"
    /\ caller.calls < MaxDriverCalls
    /\ IF driver.is_start_flag_
       THEN /\ DriverReturns("start", TRUE)
            /\ UNCHANGED driver
       ELSE IF ~driver.is_connect_flag_
       THEN /\ DriverReturns("start", FALSE)
            /\ UNCHANGED driver
       ELSE /\ driver' = [driver EXCEPT !.is_start_flag_ = TRUE, !.is_ok_ = TRUE]
            /\ DriverReturns("start", TRUE)
    /\ UNCHANGED <<comm, rxThread>>
    /\ UNCHANGED <<search, shapes, registry, planner, threads, lastCall, calls>>

\* LDLidarDriver::stop.
Stop ==
    /\ caller.pc = "idle"
    /\ caller.calls < MaxDriverCalls
    /\ IF ~driver.is_start_flag_
       THEN UNCHANGED driver
       ELSE driver' = [driver EXCEPT !.is_ok_ = FALSE, !.is_start_flag_ = FALSE]
    /\ DriverReturns("stop", TRUE)
    /\ UNCHANGED <<comm, rxThread>>
    /\ UNCHANGED <<search, shapes, registry, planner, threads, lastCall, calls>>

\* LDLidarDriver::getLaserScanData up to the call of
\* comm_pkg_->getLaserScanData(dst).
GetLaserScanData ==
    /\ caller.pc = "idle"
    /\ caller.calls < MaxDriverCalls
    /\ IF ~driver.is_start_flag_
       THEN DriverReturns("getLaserScanData", "STOP")
       ELSE IF comm.lidar_status_ = "NORMAL"
       THEN caller' = [caller EXCEPT !.pc = "isFrameReady"]
       ELSE DriverReturns("getLaserScanData", comm.lidar_status_)
    /\ UNCHANGED <<driver, comm, rxThread>>
    /\ UNCHANGED <<search, shapes, registry, planner, threads, lastCall, calls>>

\* isFrameReady() in LdLidarDataProcess::getLaserScanData(out); without a
\* frame the driver answers by the time since the last frame (`late`).
IsFrameReady(late) ==
    /\ caller.pc = "isFrameReady"
    /\ IF comm.is_frame_ready_
       THEN caller' = [caller EXCEPT !.pc = "resetFrameReady"]
       ELSE DriverReturns("getLaserScanData",
                          IF late THEN "DATA_TIME_OUT" ELSE "DATA_WAIT")
    /\ UNCHANGED <<driver, comm, rxThread>>
    /\ UNCHANGED <<search, shapes, registry, planner, threads, lastCall, calls>>

\* resetFrameReady() in LdLidarDataProcess::getLaserScanData(out).
ResetFrameReady ==
    /\ caller.pc = "resetFrameReady"
    /\ comm' = [comm EXCEPT !.is_frame_ready_ = FALSE]
    /\ caller' = [caller EXCEPT !.pc = "copy"]
    /\ UNCHANGED <<driver, rxThread>>
    /\ UNCHANGED <<search, shapes, registry, planner, threads, lastCall, calls>>

\* out = getLaserScanData() and the two returns, of LdLidarDataProcess and of
\* the driver.
CopyLaserScanData ==
    /\ caller.pc = "copy"
    /\ caller' = [caller EXCEPT !.pc = "idle", !.calls = @ + 1,
                                !.last = [op |-> "getLaserScanData", ret |-> "NORMAL"],
                                !.delivered = Append(@, comm.lidar_scan_data_vec_)]
    /\ UNCHANGED <<driver, comm, rxThread>>
    /\ UNCHANGED <<search, shapes, registry, planner, threads, lastCall, calls>>

\* rxThreadProc: the test of rx_thread_exit_flag_, then a Read() and a
\* commReadCallback() whose assemblePacket() has a whole frame in tmp. (A
\* callback that completes no frame changes nothing here.)
RxLoop ==
    /\ rxThread.pc = "loop"
    /\ IF driver.rx_thread_exit_flag_
       THEN rxThread' = [rxThread EXCEPT !.pc = "exited"]
       ELSE /\ rxThread.frames < MaxFrames
            /\ rxThread' = [pc |-> "setLaserScanData",
                            tmp |-> Frame(rxThread.frames + 1),
                            frames |-> rxThread.frames + 1]
    /\ UNCHANGED <<driver, comm, caller>>
    /\ UNCHANGED <<search, shapes, registry, planner, threads, lastCall, calls>>

\* setLaserScanData(tmp) in assemblePacket.
RxSetLaserScanData ==
    /\ rxThread.pc = "setLaserScanData"
    /\ comm' = [comm EXCEPT !.lidar_scan_data_vec_ = rxThread.tmp,
                            !.lidar_points_ = setLidarPoints(rxThread.tmp)]
    /\ rxThread' = [rxThread EXCEPT !.pc = "setFrameReady"]
    /\ UNCHANGED <<driver, caller>>
    /\ UNCHANGED <<search, shapes, registry, planner, threads, lastCall, calls>>

\* setFrameReady() in assemblePacket, and its return to the loop.
RxSetFrameReady ==
    /\ rxThread.pc = "setFrameReady"
    /\ comm' = [comm EXCEPT !.is_frame_ready_ = TRUE]
    /\ rxThread' = [rxThread EXCEPT !.pc = "loop", !.tmp = << >>]
    /\ UNCHANGED <<driver, caller>>
    /\ UNCHANGED <<search, shapes, registry, planner, threads, lastCall, calls>>

NextLidar ==
    \/ \E name \in PortNames, opened \in BOOLEAN : Connect(name, opened)
    \/ Disconnect
    \/ DisconnectJoined
    \/ Start
    \/ Stop
    \/ GetLaserScanData
    \/ \E late \in BOOLEAN : IsFrameReady(late)
    \/ ResetFrameReady
    \/ CopyLaserScanData
    \/ RxLoop
    \/ RxSetLaserScanData
    \/ RxSetFrameReady

SpecLidar == Init /\ [][NextLidar]_vars

----------------------------------------------------------------------------
\* setLaserScanData on its own: the receive thread holds a frame, hands it
\* over, and the degrees of lidar_points_ are read.

\* The degrees that a scan may leave without a valid point, in the order of
\* the scan.
ProbeDegrees == <<358, 359, 0, 1, 2>>

\* What the scan holds for a degree: two valid points, no point, or one point
\* of too low an intensity.
Kinds == {"valid", "none", "weak"}

\* The points of degree d, the first of them with stamp `stamp`.
PointsAt(d, kind, stamp) ==
    IF kind = "valid"
    THEN << PointData(100 * d + 25, 1000 + d, 200, stamp),
            PointData(100 * d + 75, 1007 + d, 201, stamp + 1) >>
    ELSE IF kind = "weak"
    THEN << PointData(100 * d + 50, 1000 + d, 100, stamp) >>
    ELSE << >>

RECURSIVE ScanFrom(_, _)
ScanFrom(kinds, k) ==
    IF k > Len(ProbeDegrees) THEN << >>
    ELSE PointsAt(ProbeDegrees[k], kinds[k], 10 * k) \o ScanFrom(kinds, k + 1)

\* The frames given to setLaserScanData.
Scans == { ScanFrom(kinds, 1) : kinds \in [1..Len(ProbeDegrees) -> Kinds] }

\* A connected and started driver whose receive thread has assembled a frame.
InitPoints ==
    /\ enabled = [o \in Pool \cup Scene |-> TRUE]
    /\ fixedObstacles = << >>
    /\ dynamicObstacles = << >>
    /\ validPoints = << >>
    /\ graph = {}
    /\ path = << >>
    /\ startPose = NoPose
    /\ finishPose = NoPose
    /\ isAvoidanceComputed = FALSE
    /\ lastCall = Call("new", "none", NoPose, NoPose, FALSE, FALSE, "none")
    /\ calls = 0
    /\ mutex = "free"
    /\ prodPc = [t \in Producers |-> Outside]
    /\ planPc = "idle"
    /\ planArgs = <<NoPose, NoPose>>
    /\ planSeen = << >>
    /\ rcPc = "idle"
    /\ rcIdx = 0
    /\ rcArgs = [a |-> NoPose, b |-> NoPose, end |-> 0]
    /\ shape = NoObstacle
    /\ shapePc = "none"
    /\ boxI = 0
    /\ answer = NoAnswer
    /\ search = NoSearch
    /\ driver = [NewDriver EXCEPT !.is_connect_flag_ = TRUE, !.is_start_flag_ = TRUE,
                                  !.is_ok_ = TRUE]
    /\ comm = NewDataProcess
    /\ \E src \in Scans :
          rxThread = [pc |-> "setLaserScanData", tmp |-> src, frames |-> 1]
    /\ caller = [NewCaller EXCEPT !.calls = 2,
                                  !.last = [op |-> "start", ret |-> TRUE]]

NextPoints ==
    \/ RxSetLaserScanData
    \/ RxSetFrameReady
    \/ GetLaserScanData
    \/ \E late \in BOOLEAN : IsFrameReady(late)
    \/ ResetFrameReady
    \/ CopyLaserScanData

SpecPoints == InitPoints /\ [][NextPoints]_vars

----------------------------------------------------------------------------
\* Properties of the calls made one at a time

AllObstacles == fixedObstacles \o dynamicObstacles

Registered == { AllObstacles[k] : k \in 1..Len(AllObstacles) }

\* The waypoints the path refers to.
PathPoses == [ i \in 1..Len(path) |-> validPoints[path[i] + 1] ]

PlanReturned == lastCall.op = "plan"

\* No enabled obstacle of the fixed or dynamic list crosses [ab].
NoObstacleCrosses(a, b) ==
    \A o \in Registered : enabled[o] => ~is_segment_crossing(Obj[o], a, b)

\* Every leg of the walk w is free of enabled obstacles.
LegsFree(w) == \A k \in 1..(Len(w) - 1) : NoObstacleCrosses(w[k], w[k + 1])

\* C1: whenever plan(start, finish) fails, computed is false and path_length()
\* is 0 on return, also after an earlier plan that left a path.
C1_FailedPlanClearsPath ==
    (PlanReturned /\ ~lastCall.ret) => (~isAvoidanceComputed /\ Len(path) = 0)

\* C2 as stated: after a successful plan(s, f) no enabled obstacle crosses a leg
\* of the path with the requested start s prepended.
C2_LegsFreeFromRequestedStart ==
    (PlanReturned /\ lastCall.ret) => LegsFree(<<lastCall.a>> \o PathPoses)

\* C2 amended: after a successful plan(s, f) no enabled obstacle crosses a leg
\* of the path with the effective start (vertex 0: s, or the point s was
\* snapped to) prepended.
C2_LegsFreeFromEffectiveStart ==
    (PlanReturned /\ lastCall.ret) => LegsFree(<<validPoints[1]>> \o PathPoses)

\* A successful plan that goes around the enabled rectangle.
C2_Witness ==
    /\ PlanReturned /\ lastCall.ret
    /\ lastCall.a # lastCall.b
    /\ validPoints[1] = lastCall.a
    /\ Len(path) >= 2
    /\ "R" \in Registered /\ enabled["R"]
    /\ is_segment_crossing(Obj["R"], lastCall.a, lastCall.b)

C6_RecomputeIffEnabledDynamicCrosses ==
    lastCall.op = "should_recompute" =>
        (lastCall.ret <=>
            \E k \in 1..Len(dynamicObstacles) :
                /\ enabled[dynamicObstacles[k]]
                /\ is_segment_crossing(Obj[dynamicObstacles[k]], lastCall.a, lastCall.b))

\* C7: a disabled obstacle is skipped by plan(): the result and the path are
\* those of the same call on the registry without the disabled obstacles.
C7_DisabledObstacleIsSkipped ==
    PlanReturned =>
        LET r == avoidance_on(SelectSeq(AllObstacles, LAMBDA o : enabled[o]),
                              lastCall.a, lastCall.b)
        IN /\ lastCall.ret = r.ret
           /\ lastCall.ret =>
                  PathPoses = [ i \in 1..Len(r.path) |-> r.validPoints[r.path[i] + 1] ]

\* Strictly inside the borders, an axis-parallel rectangle from Borders[1] to
\* Borders[3]: a point of an edge or a vertex is not.
StrictlyInsideBorders(p) ==
    /\ Borders[1].x < p.x /\ p.x < Borders[3].x
    /\ Borders[1].y < p.y /\ p.y < Borders[3].y

\* The finish is rejected by the validation of plan().
FinishInvalid(f) ==
    \/ ~StrictlyInsideBorders(f)
    \/ \E o \in Registered : enabled[o] /\ is_point_inside(Obj[o], f)

\* C8: plan(start, finish) fails without building a graph whenever the finish
\* is not strictly inside the borders or is contained in an enabled obstacle.
C8_InvalidFinishFailsBeforeGraph ==
    (PlanReturned /\ FinishInvalid(lastCall.b)) => (~lastCall.ret /\ ~lastCall.built)

\* A plan to a finish on the border edge, made after a plan that built a graph.
C8_Witness ==
    /\ PlanReturned /\ lastCall.b = E
    /\ ~lastCall.ret /\ ~lastCall.built
    /\ Len(validPoints) >= 2

\* C9: with the start inside an enabled rectangle, the finish valid and outside
\* it, and nothing else registered, plan() succeeds from the rectangle's
\* nearest corner and its path ends at the finish.
C9_StartSnappingRecovers ==
    ( /\ PlanReturned
      /\ Registered = {"R"} /\ enabled["R"]
      /\ is_point_inside(Obj["R"], lastCall.a)
      /\ ~FinishInvalid(lastCall.b) )
    => /\ lastCall.ret
       /\ validPoints[1] = nearest_point(Obj["R"], lastCall.a)
       /\ validPoints[1] # lastCall.a
       /\ Len(path) >= 1
       /\ PathPoses[Len(path)] = lastCall.b

\* C10: a plan whose start equals its finish, the finish passing validation,
\* succeeds with the one-element path [finish], whatever obstacles are enabled
\* elsewhere.
C10_StartEqualsFinish ==
    ( /\ PlanReturned
      /\ lastCall.a = lastCall.b
      /\ lastCall.kind \notin {"FinishOutsideBorders", "FinishInsideObstacle"} )
    => /\ lastCall.ret
       /\ PathPoses = <<lastCall.b>>

\* C11: path_pose(i) returns the i-th waypoint of the path when
\* i < path_length() and fails when i >= path_length(): no index at or past
\* the length yields a waypoint.
C11_PathPoseInRangeOnly ==
    lastCall.op = "path_pose" =>
        /\ lastCall.index < Len(path) =>
               (lastCall.ret /\ lastCall.a = PathPoses[lastCall.index + 1])
        /\ lastCall.index >= Len(path) => ~lastCall.ret

PlanFailed == lastCall.op = "plan" /\ ~lastCall.ret

\* C12: the failure kinds of plan() are pairwise distinguishable by the value
\* returned: two plan() calls in a row that fail for different reasons do not
\* return the same value.
C12_FailureKindsDistinct ==
    [][(PlanFailed /\ PlanFailed' /\ lastCall.kind # lastCall'.kind)
          => lastCall.ret # lastCall'.ret]_vars

\* The obstacles a list refers to.
Refs(list) == { list[k] : k \in 1..Len(list) }

CircleOnMidpoint(a, b) ==
    \E o \in Refs(dynamicObstacles) :
        /\ Obj[o].kind = "circle"
        /\ enabled[o]
        /\ 2 * Obj[o].center.x = a.x + b.x
        /\ 2 * Obj[o].center.y = a.y + b.y

\* C15: with an enabled circle of the dynamic list centred on the midpoint of
\* (a, b), inside the borders, should_recompute(a, b) returns true; while the
\* dynamic list is empty (from clear_dynamic() to the next add_dynamic) it
\* returns false for every segment.
C15_RecomputeAfterAddAndClear ==
    /\ ( /\ lastCall.op = "should_recompute"
         /\ CircleOnMidpoint(lastCall.a, lastCall.b) ) => lastCall.ret
    /\ ( /\ lastCall.op = "should_recompute"
         /\ dynamicObstacles = << >> ) => ~lastCall.ret

\* should_recompute(M1, M2) has returned true with the circle C, centred on
\* the midpoint of [M1 M2], in the dynamic list.
C15_Witness ==
    /\ lastCall.op = "should_recompute"
    /\ lastCall.a = M1 /\ lastCall.b = M2
    /\ CircleOnMidpoint(M1, M2)
    /\ lastCall.ret

----------------------------------------------------------------------------
\* Properties of one avoidance() call followed through dijkstra()

\* The candidate list and the graph in the state are those of the call in
\* progress, or of the call that returned last.
GraphBuilt == search.pc = "loop" \/ (lastCall.op = "plan" /\ lastCall.built)

\* The last call of avoidance() has returned true and no other call is running.
SearchSucceeded == search.pc = "idle" /\ lastCall.op = "plan" /\ lastCall.ret

\* An enabled registered obstacle other than o contains p.
OtherObstacleContains(o, p) ==
    \E x \in Registered : x # o /\ enabled[x] /\ is_point_inside(Obj[x], p)

\* The bounding-box points selected from the obstacles all[k], all[k + 1], ...
RECURSIVE SelectedPoints(_, _)
SelectedPoints(all, k) ==
    IF k > Len(all) THEN << >>
    ELSE LET o == all[k]
             Accepted(p) == /\ polygon_is_point_inside(Borders, p)
                            /\ ~OtherObstacleContains(o, p)
         IN IF enabled[o] /\ polygon_is_point_inside(Borders, Obj[o].center)
            THEN SelectSeq(Obj[o].bounding_box, Accepted) \o SelectedPoints(all, k + 1)
            ELSE SelectedPoints(all, k + 1)

\* C24: the candidate list is the (possibly snapped) start at index 0, the
\* finish at index 1, then, for every enabled obstacle o whose center is inside
\* the borders, the points p of its bounding box such that the borders contain
\* p and no enabled obstacle other than o contains p; o containing p itself
\* does not reject p.
C24_CandidateSelection ==
    GraphBuilt =>
        validPoints = <<startPose, finishPose>> \o SelectedPoints(AllObstacles, 1)

\* C27: when the loop of plan() that validates the start and the finish has
\* not failed, the effective start placed at vertex 0 is not contained in any
\* enabled registered obstacle, whatever the order of the obstacles, also when
\* they overlap or when the obstacle snapped from has margin 0.
C27_EffectiveStartOutside ==
    GraphBuilt =>
        ~\E o \in Registered : enabled[o] /\ is_point_inside(Obj[o], validPoints[1])

\* _graph[i][j] exists.
HasEdge(i, j) == \E e \in graph : e[1] = i /\ e[2] = j

\* A call of avoidance() that built a graph has returned.
GraphReturned == search.pc = "idle" /\ lastCall.op = "plan" /\ lastCall.built

\* C25: once the graph is built, for every pair of candidate vertices i < j the
\* edge (i, j) is present iff no enabled obstacle of the lists crosses
\* [p_i p_j]; a present edge is stored in both directions with one weight, the
\* Euclidean distance of p_i and p_j (here in hundredths, rounded down); the
\* graph holds nothing else, so no edge of an earlier plan is left in it.
C25_GraphEdges ==
    GraphReturned =>
        LET n == Len(validPoints)
        IN /\ \A i, j \in 0..(n - 1) :
                 i < j => /\ HasEdge(i, j) <=>
                                NoObstacleCrosses(validPoints[i + 1], validPoints[j + 1])
                          /\ HasEdge(j, i) <=> HasEdge(i, j)
           /\ Cardinality(graph) = Cardinality({ <<e[1], e[2]>> : e \in graph })
           /\ \A e \in graph :
                 /\ e[1] \in 0..(n - 1) /\ e[2] \in 0..(n - 1) /\ e[1] # e[2]
                 /\ <<e[2], e[1], e[3]>> \in graph
                 /\ e[3] * e[3] <= 10000 * Dist2(validPoints[e[1] + 1], validPoints[e[2] + 1])
                 /\ 10000 * Dist2(validPoints[e[1] + 1], validPoints[e[2] + 1])
                        < (e[3] + 1) * (e[3] + 1)

\* A plan has built a graph on more than two candidates: an enabled obstacle
\* crosses the segment from the start to the finish, whose edge is absent, and
\* other edges are present.
C25_Witness ==
    /\ GraphReturned
    /\ Len(validPoints) > 2
    /\ ~HasEdge(START_INDEX, FINISH_INDEX)
    /\ graph # {}
    /\ \E o \in Registered :
          /\ enabled[o]
          /\ is_segment_crossing(Obj[o], validPoints[1], validPoints[2])

Min(S) == CHOOSE x \in S : \A y \in S : x <= y

\* The smallest total weight of a path of g from vertex 0 to every vertex,
\* MAX_DISTANCE where there is none: d is improved along every edge until
\* nothing changes.
RECURSIVE ShortestFrom(_, _, _)
ShortestFrom(g, n, d) ==
    LET d2 == [ j \in 0..(n - 1) |->
                  Min({d[j]} \cup { d[e[1]] + e[3] :
                                      e \in { x \in g : x[2] = j /\ d[x[1]] < MAX_DISTANCE } }) ]
    IN IF d2 = d THEN d ELSE ShortestFrom(g, n, d2)

Shortest(g, n) ==
    ShortestFrom(g, n, [ j \in 0..(n - 1) |-> IF j = START_INDEX THEN 0 ELSE MAX_DISTANCE ])

\* The walk w goes along edges of g.
IsWalk(w, g) ==
    \A k \in 1..(Len(w) - 1) : \E e \in g : e[1] = w[k] /\ e[2] = w[k + 1]

RECURSIVE WalkWeight(_, _)
WalkWeight(w, g) ==
    IF Len(w) < 2 THEN 0
    ELSE Weight(g, w[1], w[2]) + WalkWeight(Tail(w), g)

\* The unchecked vertices of finite distance of the search record r.
Open(r) ==
    { i \in DOMAIN r.checked : ~r.checked[i] /\ r.distance[i] < MAX_DISTANCE }

\* C22: when the search succeeds, the path with vertex 0 in front of it is a
\* walk along edges of the graph from vertex 0 to vertex 1, its total weight
\* is the smallest total weight of a path from 0 to 1, and it is the path the
\* graph determines (the same graph gives the same path); every vertex the
\* loop takes next is, among the unchecked vertices of smallest distance, the
\* one of lowest index.
C22_ShortestPathLowestIndexFirst ==
    /\ [](SearchSucceeded =>
             LET w == <<START_INDEX>> \o path
             IN /\ w[Len(w)] = FINISH_INDEX
                /\ IsWalk(w, graph)
                /\ WalkWeight(w, graph) = Shortest(graph, Len(validPoints))[FINISH_INDEX]
                /\ path = dijkstra(validPoints, graph).path)
    /\ [][(search.pc = "loop" /\ search'.pc = "loop" /\ search' # search) =>
             /\ search'.v \in Open(search')
             /\ \A j \in Open(search') :
                    \/ search'.distance[search'.v] < search'.distance[j]
                    \/ /\ search'.distance[search'.v] = search'.distance[j]
                       /\ search'.v <= j]_vars

\* The loop has just taken its next vertex while another unchecked vertex, of
\* higher index, has the same distance.
C22_Witness ==
    /\ search.pc = "loop"
    /\ search.v \in Open(search)
    /\ \E j \in Open(search) :
          j > search.v /\ search.distance[j] = search.distance[search.v]

\* The number of vertices marked in the search record r.
Marked(r) == Cardinality({ i \in DOMAIN r.checked : r.checked[i] })

\* C23: on every graph built after the finish passed validation, the search
\* ends, and it returns success iff vertex 1 can be reached from vertex 0 in
\* the graph; it fails as StartIsolated exactly when vertex 0 has no
\* neighbour, and as NoPath when vertex 0 has one and the loop runs out of
\* unchecked vertices of finite distance before it takes the finish. Every
\* pass of the loop that does not return marks one more vertex.
C23_SearchEndsAndFindsReachable ==
    /\ [](GraphReturned =>
             /\ lastCall.ret <=>
                    Shortest(graph, Len(validPoints))[FINISH_INDEX] < MAX_DISTANCE
             /\ lastCall.kind = "StartIsolated" <=> ~\E e \in graph : e[1] = START_INDEX
             /\ lastCall.kind = "NoPath" <=>
                    (~lastCall.ret /\ \E e \in graph : e[1] = START_INDEX))
    /\ [][(search.pc = "loop" /\ search'.pc = "loop" /\ search' # search) =>
             Marked(search') = Marked(search) + 1]_vars
    /\ (search.pc = "loop") ~> (search.pc = "idle")

\* A search has returned false with no path: the start has neighbours, there
\* are candidates besides the start and the finish, and the finish cannot be
\* reached.
C23_Witness ==
    /\ GraphReturned
    /\ lastCall.kind = "NoPath"
    /\ \E e \in graph : e[1] = START_INDEX
    /\ Len(validPoints) > 3

\* Points injected as one more candidate vertex: a point under the lower left
\* corner of R, a point above R, and the pose A.
ExtraVertices == { Coords(15, 9), Coords(20, 25), A }

\* The search made again on the candidates of the state and the vertex x, with
\* the same obstacles: the value returned and the total weight of its path.
SearchWith(x) ==
    LET vp == validPoints \o <<x>>
        g  == buildAvoidanceGraph(AllObstacles, enabled, vp)
        d  == dijkstra(vp, g)
    IN [ ret |-> d.ret,
         weight |-> IF d.ret THEN WalkWeight(<<START_INDEX>> \o d.path, g) ELSE MAX_DISTANCE ]

\* C21: for the same start, finish and obstacles, with one more candidate
\* vertex the search still succeeds if it succeeded without it, and the total
\* weight of the path it returns is not greater.
C21_WeightMonotoneInVertices ==
    SearchSucceeded =>
        \A x \in ExtraVertices :
            /\ SearchWith(x).ret
            /\ SearchWith(x).weight <= WalkWeight(<<START_INDEX>> \o path, graph)

\* A successful plan around R whose path gets strictly shorter with the vertex
\* (15, 9).
C21_Witness ==
    /\ SearchSucceeded
    /\ Len(path) >= 3
    /\ SearchWith(Coords(15, 9)).weight < WalkWeight(<<START_INDEX>> \o path, graph)

----------------------------------------------------------------------------
\* Properties of the concurrent calls

\* C4: a plan() call observes one snapshot of the dynamic list: the lists read
\* by the pose validation, the candidate selection and the edge tests of one
\* call are the same.
C4_PlanSeesOneSnapshot ==
    \A i, j \in 1..Len(planSeen) : planSeen[i] = planSeen[j]

\* C5: should_recompute holds the dynamic-list guard while it iterates, so no
\* mutation of the dynamic list takes effect during the iteration.
C5_RecomputeHoldsGuard ==
    [][rcPc = "iterating" => dynamicObstacles' = dynamicObstacles]_vars

Inside(t) == prodPc[t] # Outside

\* The list after the mutation m = [op, o] made on its own.
Mutated(m, list) ==
    IF m.op = "add_dynamic" THEN Append(list, m.o)
    ELSE IF m.op = "remove_dynamic" THEN SelectSeq(list, LAMBDA x : x # m.o)
    ELSE << >>

\* C13: add_dynamic, remove_dynamic and clear_dynamic hold the guard while they
\* touch the dynamic list and release it on return: a thread is inside a
\* mutator exactly when it holds the guard (so no two are inside together), and
\* every change of the list is the whole mutation of the holder, applied to the
\* list as the previous mutation left it, with the guard released by the same
\* return.
C13_MutationsUnderGuard ==
    /\ [](\A t \in Producers : Inside(t) <=> mutex = t)
    /\ [][dynamicObstacles' # dynamicObstacles
            => \E t \in Producers :
                  /\ mutex = t
                  /\ Inside(t)
                  /\ mutex' = "free"
                  /\ prodPc'[t] = Outside
                  /\ dynamicObstacles' = Mutated(prodPc[t], dynamicObstacles)]_vars

\* One producer is inside a mutator with the guard held, the other is outside,
\* and an earlier mutation has already been applied to the list.
C13_Witness ==
    /\ mutex = "p2"
    /\ Inside("p2")
    /\ ~Inside("p1")
    /\ dynamicObstacles # << >>
    /\ lastCall.op = "add_dynamic"

----------------------------------------------------------------------------
\* Properties of one obstacle object

BuiltPolygon == shapePc = "built" /\ shape.kind = "polygon"
BuiltCircle == shapePc = "built" /\ shape.kind = "circle"

\* (Cx, Cy) of the signed-area formula: Cx = sum((x_i + x_i+1) * cross_i) / 6A
\* and Cy alike, with A half the sum of the cross products.
SignedAreaCentroid(ring) ==
    LET sums == centroid_sums(ring, 1, [area |-> 0, x_sum |-> 0, y_sum |-> 0])
    IN Coords(sums.x_sum \div (3 * sums.area), sums.y_sum \div (3 * sums.area))

\* C16: the center of a polygon built from a counter-clockwise convex ring of
\* at least 3 vertices is the signed-area centroid, and the polygon contains it.
C16_CentroidInside ==
    BuiltPolygon =>
        /\ shape.center = SignedAreaCentroid(shape.ring)
        /\ polygon_is_point_inside(shape.ring, shape.center)

\* C17: after construction the bounding box of a polygon of n >= 3 vertices
\* has n points, the i-th being the i-th vertex moved away from the centroid by
\* the factor 1 + margin.
C17_PolygonBoundingBox ==
    BuiltPolygon =>
        /\ Len(shape.bounding_box) = Len(shape.ring)
        /\ \A i \in 1..Len(shape.ring) :
              LET c == SignedAreaCentroid(shape.ring)
                  v == shape.ring[i]
                  q == shape.bounding_box[i]
              IN /\ MarginDen * (q.x - c.x) = (MarginDen + MarginNum) * (v.x - c.x)
                 /\ MarginDen * (q.y - c.y) = (MarginDen + MarginNum) * (v.y - c.y)

\* crosses_segment of a circle as specified: an end inside, or the line within
\* the radius of the centre and the foot of the perpendicular within [ab].
CircleCrossing(o, a, b) ==
    \/ Dist2(o.center, a) <= o.radius * o.radius
    \/ Dist2(o.center, b) <= o.radius * o.radius
    \/ /\ a # b
       /\ Cross(b.x - a.x, b.y - a.y, o.center.x - a.x, o.center.y - a.y)
            * Cross(b.x - a.x, b.y - a.y, o.center.x - a.x, o.center.y - a.y)
              <= o.radius * o.radius * Dist2(a, b)
       /\ (b.x - a.x) * (o.center.x - a.x) + (b.y - a.y) * (o.center.y - a.y) >= 0
       /\ (a.x - b.x) * (o.center.x - b.x) + (a.y - b.y) * (o.center.y - b.y) >= 0

\* C18: crosses_segment(a, b) of a circle is true iff a is inside, or b is
\* inside, or both the line AB passes within the radius of the centre and the
\* foot of the perpendicular lies within the segment.
C18_CircleCrossingIff ==
    (BuiltCircle /\ answer.op = "crosses_segment")
        => answer.ret = CircleCrossing(shape, answer.a, answer.b)

\* a and b are two vertices of the ring that are not neighbours on it.
NonAdjacentVertices(ring, a, b) ==
    \E i, j \in 1..Len(ring) :
        /\ ring[i] = a /\ ring[j] = b
        /\ i # j
        /\ NextVertex(ring, i) # b
        /\ NextVertex(ring, j) # a

\* crosses_segment of a polygon as specified.
PolygonCrossing(ring, a, b) ==
    \/ \E i \in 1..Len(ring) :
          /\ Sign(Cross(b.x - a.x, b.y - a.y, ring[i].x - a.x, ring[i].y - a.y))
               * Sign(Cross(b.x - a.x, b.y - a.y,
                            NextVertex(ring, i).x - a.x, NextVertex(ring, i).y - a.y)) < 0
          /\ Sign(Cross(NextVertex(ring, i).x - ring[i].x, NextVertex(ring, i).y - ring[i].y,
                        a.x - ring[i].x, a.y - ring[i].y))
               * Sign(Cross(NextVertex(ring, i).x - ring[i].x, NextVertex(ring, i).y - ring[i].y,
                            b.x - ring[i].x, b.y - ring[i].y)) < 0
    \/ NonAdjacentVertices(ring, a, b)
    \/ \E i \in 1..Len(ring) : on_segment(ring[i], a, b)

\* The ring stored from each of its vertices.
RECURSIVE RotateBy(_, _)
RotateBy(ring, k) == IF k = 0 THEN ring ELSE RotateBy(Rotate(ring), k - 1)

\* C19: crosses_segment(a, b) of a polygon is true iff some edge crosses [ab]
\* strictly, or a and b are two non-adjacent vertices, or some vertex lies on
\* [ab]; the result is the same whichever vertex of the ring is stored first.
C19_PolygonCrossingIff ==
    (BuiltPolygon /\ answer.op = "crosses_segment")
        => /\ answer.ret = PolygonCrossing(shape.ring, answer.a, answer.b)
           /\ \A k \in 1..(Len(shape.ring) - 1) :
                 polygon_is_segment_crossing(RotateBy(shape.ring, k), answer.a, answer.b)
                     = answer.ret

\* C20: the construction of a circle with radius > 0 and N bounding box points
\* ends with exactly N points, the i-th at the angle i * 360 / N degrees on the
\* circle of radius radius * (1 + margin). The box only grows during the
\* construction, so it never holds more than N points and every point it
\* holds is the one of its rank.
C20_CircleBoundingBox ==
    (shape.kind = "circle" /\ shape.radius > 0) =>
        /\ Len(shape.bounding_box) <= shape.bounding_box_points_number
        /\ shapePc = "built" =>
               Len(shape.bounding_box) = shape.bounding_box_points_number
        /\ \A k \in 1..Len(shape.bounding_box) :
               shape.bounding_box[k] =
                   [ center  |-> shape.center,
                     radius  |-> Inflate(shape.radius),
                     turnNum |-> k - 1,
                     turnDen |-> shape.bounding_box_points_number ]

\* a and b are the two ends of one edge of the ring, the edge from the last
\* vertex back to the first included.
AdjacentVertices(ring, a, b) ==
    \E i \in 1..Len(ring) :
        \/ (ring[i] = a /\ NextVertex(ring, i) = b)
        \/ (ring[i] = b /\ NextVertex(ring, i) = a)

\* Some edge of the ring crosses [ab] strictly.
EdgeCrossesStrictly(ring, a, b) ==
    \E i \in 1..Len(ring) :
        is_segment_crossing_segment(a, b, ring[i], NextVertex(ring, i))

\* C26: when a and b are two neighbouring vertices of the ring of a polygon
\* (the last and the first included) and no edge crosses [ab] strictly,
\* crosses_segment(a, b) is false, for every pair of neighbours alike.
C26_AdjacentVerticesDoNotCross ==
    (/\ BuiltPolygon
     /\ answer.op = "crosses_segment"
     /\ AdjacentVertices(shape.ring, answer.a, answer.b)
     /\ ~EdgeCrossesStrictly(shape.ring, answer.a, answer.b))
        => answer.ret = FALSE

----------------------------------------------------------------------------
\* Properties of the LIDAR driver

\* The step returns from a call of `op` of the driver.
DriverReturned(op) ==
    /\ caller'.calls = caller.calls + 1
    /\ caller'.last.op = op

\* C28: in every state reached by connect, disconnect, start and stop the
\* driver is started only if it is connected; start() on a driver that is not
\* connected returns false and leaves it not started; getLaserScanData on a
\* driver that is not started returns STOP.
C28_StartedOnlyIfConnected ==
    /\ [](driver.is_start_flag_ => driver.is_connect_flag_)
    /\ [][(DriverReturned("start") /\ ~driver.is_connect_flag_)
              => (caller'.last.ret = FALSE /\ ~driver'.is_start_flag_)]_vars
    /\ [][(DriverReturned("getLaserScanData") /\ ~driver.is_start_flag_)
              => caller'.last.ret = "STOP"]_vars

\* C29: whatever the interleaving of the receive thread and of the calls of
\* getLaserScanData, no frame is given to the caller twice: the frames it got
\* with NORMAL are all different, and each is a frame that was assembled.
C29_FrameReturnedAtMostOnce ==
    /\ \A i, j \in 1..Len(caller.delivered) :
          i # j => caller.delivered[i] # caller.delivered[j]
    /\ \A i \in 1..Len(caller.delivered) :
          \E k \in 1..rxThread.frames : caller.delivered[i] = Frame(k)

\* The degree has no valid point in src.
EmptyDegree(src, d) == tmp_points(src, d) = << >>

\* The degrees before and after d round the circle.
DegreeBefore(d) == (d + NUM_ANGLES - 1) % NUM_ANGLES
DegreeAfter(d) == (d + 1) % NUM_ANGLES

\* C30: after setLidarPoints a degree with valid points holds their mean; a
\* degree without a valid point whose two neighbours round the circle (359 and
\* 0 are neighbours) both have valid points holds the mean of the two; a degree
\* without a valid point that has such a neighbour holds distance 3000 and
\* intensity 150.
C30_IsolatedEmptyDegreeFilled ==
    (comm.lidar_points_ # NotSet) =>
        LET src == comm.lidar_scan_data_vec_
        IN \A d \in 0..(NUM_ANGLES - 1) :
              LET b == DegreeBefore(d)
                  a == DegreeAfter(d)
              IN comm.lidar_points_[d] =
                    IF ~EmptyDegree(src, d) THEN mean_of(src, d)
                    ELSE IF EmptyDegree(src, b) \/ EmptyDegree(src, a)
                    THEN [distance |-> max_distance, intensity |-> min_intensity]
                    ELSE [distance  |-> round_half(mean_of(src, b).distance,
                                                   mean_of(src, a).distance),
                          intensity |-> round_half(mean_of(src, b).intensity,
                                                   mean_of(src, a).intensity)]

====
